---- MODULE Spec2Model ----
(***************************************************************************)
(* Model of the music service of discordBotGo: the radio coordinator       *)
(* (player.Service: Play, SetRadio, playRandomSong, handleError,           *)
(* SubscribeOnErrors, Stop, Disconnect), the firestore song provider       *)
(* (GetSong, SetSong, UpsertSongIncPlaybacks, IncrementUserRequests,       *)
(* GetRandomSongs, updateShortCache) and the YouTube resolver              *)
(* (EnsureStreamInfo, FindSong).  The embedded *Player, the SongsCache and *)
(* the firestore Client are not part of the sources at hand; they are      *)
(* modelled from the specification (queue, now playing, error channel,     *)
(* read-through cache with a TTL, document store).                         *)
(***************************************************************************)
EXTENDS Integers, Sequences, FiniteSets, TLC

\* ------------------------------------------------------------------ bounds
MaxSongs == 1      \* song ids are 1..MaxSongs
MaxCalls == 3      \* caller commands issued to the service
MaxPlays == 2      \* of them, Service.Play requests
MaxErrs == 2       \* capacity used of the Player's error channel
MaxSubs == 1       \* handlers registered through Service.SubscribeOnErrors
MaxRetries == 2    \* the retry counter of a refill saturates here
MaxDraw == 2       \* Service.Random(n) is called with n in 1..MaxDraw

\* GetRandomSongs: cooldown := n * 10
Cooldown == 10

IDs == 1..MaxSongs

\* ------------------------------------------------------------- data model
\* pkg.Song, reduced to the fields the service reads or writes.
Resolved == "stream"
NoSong == [ID |-> 0, StreamURL |-> "", Duration |-> 0, Playbacks |-> 0]
StoredSongs ==
    {[ID |-> i, StreamURL |-> u, Duration |-> (IF u = "" THEN 0 ELSE 1), Playbacks |-> 1] :
        i \in IDs, u \in {"", Resolved}}

\* Errors the Player delivers to its subscribers: a sentinel (or any other
\* cause), possibly wrapped with errors.Wrap.
Kinds == {"ErrQueueEmpty", "ErrManualStop", "EOF", "other"}
NoErr == [kind |-> "nil", wrapped |-> FALSE]
Event(k, w) == [kind |-> k, wrapped |-> w]

\* The causes a pipeline ends with by itself: end of stream, or a failure.
Causes == {Event("EOF", FALSE), Event("EOF", TRUE), Event("other", TRUE)}

\* errors.Is walks the chain of wrapped errors: wrapping does not hide the
\* sentinel.
Is(err, target) == err.kind = target

Min(a, b) == IF a < b THEN a ELSE b

RECURSIVE SeqOfSet(_)
SeqOfSet(S) ==
    IF S = {} THEN <<>>
    ELSE LET m == CHOOSE x \in S : \A y \in S : x <= y
         IN <<m>> \o SeqOfSet(S \ {m})

\* ------------------------------------------------------------------ state
VARIABLES
    isRadio,      \* player.Service.isRadio
    connected,    \* Player.voice.IsConnected()
    nowPlaying,   \* Player: the track being played, NoTrack when none
    queue,        \* Player: pending tracks
    errs,         \* Player: error channel, events not yet delivered
    subs,         \* number of handlers registered by Service.SubscribeOnErrors
    pending,      \* goroutines `go s.Player.Play(song)` not yet run
    handed,       \* request numbers in the order their track reached the Player
    shortList,    \* firestore.Service.songsShort.List
    updated,      \* firestore.Service.updated
    booted,       \* the initial `go f.updateShortCache(ctx)` has run
    db,           \* firestore Client: song documents by id
    userdb,       \* firestore Client: per-user request counts by id
    cache,        \* SongsCache shared by the provider and the resolver
    refill,       \* the running playRandomSong, if any
    ncalls,       \* caller commands issued so far
    running,      \* store calls and refreshes that are between two steps
    last          \* record of the last handler run (observation only)

vars == <<isRadio, connected, nowPlaying, queue, errs, subs, pending, handed,
          shortList, updated, booted, db, userdb, cache, refill, ncalls, running,
          last>>

playerVars == <<nowPlaying, queue, errs>>
storeVars == <<shortList, updated, booted, db, userdb, cache, running>>

\* What the Player holds of a song.
NoTrack == [ID |-> 0, StreamURL |-> ""]
Track(song) == [ID |-> song.ID, StreamURL |-> song.StreamURL]

Idle == [pc |-> "idle", origin |-> "", song |-> NoSong, retries |-> 0]

\* The provider's calls that other goroutines can interleave with: a SetSong
\* between setUpdate(true) and the store write, a refresh of the short list
\* between its read of the store and the assignment of the list, a
\* GetRandomSongs between its read of the list's length and its indexed read.
NoRun ==
    [set |-> [pc |-> "idle", song |-> NoSong],
     tick |-> [pc |-> "idle", list |-> <<>>, failed |-> FALSE],
     rand |-> [pc |-> "idle", max |-> 0]]

Blank ==
    [op |-> "init", done |-> TRUE, err |-> NoErr, b |-> FALSE,
     guild |-> "", channel |-> "", user |-> "",
     radioBefore |-> FALSE, radioAfter |-> FALSE, connBefore |-> FALSE,
     idleBefore |-> TRUE, ret |-> "nil", requests |-> 0, retries |-> 0,
     provided |-> NoSong, cmds |-> <<>>,
     hcalls |-> <<>>, lookups |-> 0, writes |-> 0, spawned |-> 0,
     song |-> NoSong, playbacks |-> 0, halts |-> <<>>, n |-> 0, songs |-> <<>>,
     arg |-> NoSong]

\* The commands a handler issued to the Player, in the order it issued them.
Cmd(kind, g, c, t) == [cmd |-> kind, guild |-> g, channel |-> c, track |-> t]
IsPlay(x) == x.cmd = "Play"
IsConnect(x) == x.cmd = "Connect"
Plays(l) == SelectSeq(l.cmds, IsPlay)
Connects(l) == SelectSeq(l.cmds, IsConnect)

\* What is left of the record once another step has been taken: the record
\* of a handler that is still running is kept, a finished one is forgotten.
Observed == IF last.done THEN Blank ELSE last

Init ==
    /\ isRadio = FALSE
    /\ connected = FALSE
    /\ nowPlaying = NoTrack
    /\ queue = <<>>
    /\ errs = <<>>
    /\ subs = 0
    /\ pending = {}
    /\ handed = <<>>
    /\ shortList = <<>>
    /\ updated = FALSE
    /\ booted = FALSE
    /\ db \in [IDs -> StoredSongs \cup {NoSong}]
    /\ \A i \in IDs : db[i] = NoSong \/ db[i].ID = i
    /\ userdb = [i \in IDs |-> 0]
    /\ cache = [i \in IDs |-> NoSong]
    /\ refill = Idle
    /\ ncalls = 0
    /\ running = NoRun
    /\ last = Blank

\* ------------------------------------------------- Player (from the spec)
\* Player.Play(track): the track is appended to the queue; when nothing is
\* playing the head of the queue is promoted to "now playing".
PlayerPlay(now, q, t) ==
    LET q1 == Append(q, t)
    IN IF now = NoTrack
       THEN [now |-> Head(q1), queue |-> Tail(q1)]
       ELSE [now |-> now, queue |-> q1]

\* Player.Connect(guild, channel): the transport may fail to establish the
\* link, the connection state is then unchanged.
ConnectResult(conn, ok) == IF ok THEN TRUE ELSE conn

\* ------------------------------------------------ provider (firestore)
\* Service.GetSong: the cache is consulted first, the store only on a miss;
\* only a successful read is cached.  readOk is the outcome of the store read.
GetSong(c, d, id, readOk) ==
    IF c[id] # NoSong
    THEN [song |-> c[id], err |-> "nil", cache |-> c]
    ELSE IF ~readOk
         THEN [song |-> NoSong, err |-> "get song by id", cache |-> c]
         ELSE IF d[id] = NoSong
              THEN [song |-> NoSong, err |-> "ErrNotFound", cache |-> c]
              ELSE [song |-> d[id], err |-> "nil", cache |-> [c EXCEPT ![id] = d[id]]]

\* pkg.Song.MergeNoOverride: fields of the receiver that are still empty are
\* taken from the other song, populated ones are kept.
MergeNoOverride(new, old) ==
    IF old = NoSong THEN new
    ELSE [ID |-> new.ID,
          StreamURL |-> IF new.StreamURL = "" THEN old.StreamURL ELSE new.StreamURL,
          Duration |-> IF new.Duration = 0 THEN old.Duration ELSE new.Duration,
          Playbacks |-> IF new.Playbacks = 0 THEN old.Playbacks ELSE new.Playbacks]

\* ------------------------------------------------- resolver (youtube)
\* Outcomes of the calls EnsureStreamInfo makes to the ytdl client.
Outcomes == {"ok", "videoErr", "noFormats", "fetchErr"}

songFromInfo(id) == [ID |-> id, StreamURL |-> "", Duration |-> 1, Playbacks |-> 0]

\* YouTube.EnsureStreamInfo: on a cache hit the stream reference and the
\* duration are copied from the cached song; otherwise the video is loaded
\* and the stream reference is the downloaded file (Download) or the stream
\* URL.  With Download the stream reference is assigned before the download
\* runs.
EnsureStreamInfo(c, song, dl, out) ==
    IF c[song.ID] # NoSong
    THEN [song |-> [song EXCEPT !.StreamURL = c[song.ID].StreamURL,
                                !.Duration = c[song.ID].Duration],
          err |-> "nil", arg |-> song]
    ELSE IF out = "videoErr"
         THEN [song |-> NoSong, err |-> "load video metadata", arg |-> song]
    ELSE IF out = "noFormats"
         THEN [song |-> NoSong, err |-> "unable to get list of formats", arg |-> song]
    ELSE IF dl
         THEN IF out = "fetchErr"
              THEN [song |-> NoSong, err |-> "download",
                    arg |-> [song EXCEPT !.StreamURL = Resolved]]
              ELSE LET s1 == MergeNoOverride([song EXCEPT !.StreamURL = Resolved],
                                             songFromInfo(song.ID))
                   IN [song |-> s1, err |-> "nil", arg |-> s1]
         ELSE IF out = "fetchErr"
              THEN [song |-> NoSong, err |-> "unable to get streamURL", arg |-> song]
              ELSE LET s1 == MergeNoOverride([song EXCEPT !.StreamURL = Resolved],
                                             songFromInfo(song.ID))
                   IN [song |-> s1, err |-> "nil", arg |-> s1]


\* Service.GetRandomSongs, second half: the drawn ids are loaded with GetSong,
\* the first failure ends the call.  okIds are the ids whose store read
\* succeeds.
RECURSIVE LoadSongs(_, _, _, _)
LoadSongs(c, d, ids, okIds) ==
    IF ids = <<>> THEN [songs |-> <<>>, err |-> "nil", cache |-> c]
    ELSE LET r == GetSong(c, d, Head(ids), Head(ids) \in okIds)
         IN IF r.err # "nil"
            THEN [songs |-> <<>>, err |-> "get song failed", cache |-> r.cache]
            ELSE LET rest == LoadSongs(r.cache, d, Tail(ids), okIds)
                 IN IF rest.err # "nil" THEN rest
                    ELSE [songs |-> <<r.song>> \o rest.songs, err |-> "nil",
                          cache |-> rest.cache]

\* Service.GetRandomSongs: an empty short list is the no-candidates error;
\* otherwise picked is the set of ids the random draws produced.
GetRandomSongsNoEmptyCheck(c, d, list, picked, okIds) ==
    LoadSongs(c, d, SeqOfSet(picked), okIds)
GetRandomSongs(c, d, list, picked, okIds) ==
    IF Len(list) = 0
    THEN [songs |-> <<>>, err |-> "no preloaded songs", cache |-> c]
    ELSE LoadSongs(c, d, SeqOfSet(picked), okIds)

\* Service.GetRandomSongs, the loop `for len(set) < n && cooldown > 0`: every
\* iteration draws an index of the list and adds the id there to the set.
\* sets are the sets the loop can hold when it tests its condition with
\* cooldown iterations left, finished the sets it has ended with.
RECURSIVE DrawLoop(_, _, _, _, _)
DrawLoop(list, n, sets, finished, cooldown) ==
    LET going == {s \in sets : Cardinality(s) < n /\ cooldown > 0}
        ended == finished \cup (sets \ going)
    IN IF going = {} THEN ended
       ELSE DrawLoop(list, n, {s \cup {list[i]} : s \in going, i \in 1..Len(list)},
                     ended, cooldown - 1)

\* The sets of ids GetRandomSongs(n) can draw from the short list.
Draws(list, n) ==
    {S \in SUBSET {list[i] : i \in 1..Len(list)} : Cardinality(S) >= 1 /\ Cardinality(S) <= n}

\* ------------------------------------------------ coordinator: helpers
Rec(op) ==
    [Blank EXCEPT !.op = op, !.radioBefore = isRadio, !.radioAfter = isRadio,
                  !.connBefore = connected, !.idleBefore = (nowPlaying = NoTrack)]

\* Service.SetRadio, Service.Play: the command needs a destination and none
\* (or half of one) was supplied.
RadioNotConnected(conn, g, c) == ~conn /\ (g = "" \/ c = "")

\* Service.handleError: what the handler does with an event.
HandleErrorIgnoringRadio(err, radio) ==
    IF Is(err, "ErrQueueEmpty") THEN "refill"
    ELSE IF ~Is(err, "ErrManualStop") /\ ~Is(err, "EOF") THEN "disable"
    ELSE "ignore"
HandleErrorKeepingRadio(err, radio) ==
    IF Is(err, "ErrQueueEmpty") THEN (IF radio THEN "refill" ELSE "ignore")
    ELSE "ignore"
handleError(err, radio) ==
    IF Is(err, "ErrQueueEmpty") THEN (IF radio THEN "refill" ELSE "ignore")
    ELSE IF ~Is(err, "ErrManualStop") /\ ~Is(err, "EOF") THEN "disable"
    ELSE "ignore"

\* The wrapper Service.SubscribeOnErrors registers with the Player: which
\* events it passes on to the caller's handler.
ForwardsQueueEmpty(err) == ~(Is(err, "EOF") \/ Is(err, "ErrManualStop"))
Forwards(err) ==
    ~(Is(err, "EOF") \/ Is(err, "ErrManualStop") \/ Is(err, "ErrQueueEmpty"))

\* ------------------------------------------------ coordinator: refill
\* The end of a playRandomSong started by handleError (a failure is logged
\* and radio is switched off) or by SetRadio (the error is returned).
RefillEnd(err, l) ==
    LET off == refill.origin = "handleError" /\ err # "nil"
    IN /\ isRadio' = IF off THEN FALSE ELSE isRadio
       /\ refill' = Idle
       /\ last' = [l EXCEPT !.done = TRUE, !.ret = err,
                            !.radioAfter = IF off THEN FALSE ELSE isRadio]

\* playRandomSong, first half: songs, err := GetRandomSongs(ctx, 1); a track
\* with a stream reference goes to Player.Play at once.
RefillSelect ==
    /\ refill.pc = "select"
    /\ LET l == [last EXCEPT !.requests = Min(last.requests + 1, MaxRetries + 1)]
       IN \E picked \in (IF Len(shortList) = 0 THEN {{}} ELSE Draws(shortList, 1)),
             readOk \in BOOLEAN :
            LET r == GetRandomSongs(cache, db, shortList, picked,
                                    IF readOk THEN IDs ELSE {})
            IN /\ cache' = r.cache
               /\ IF r.err # "nil"
                  THEN /\ RefillEnd(r.err, l)
                       /\ UNCHANGED <<nowPlaying, queue>>
                  ELSE LET song == r.songs[1]
                       IN IF song.StreamURL = ""
                          THEN /\ refill' = [refill EXCEPT !.pc = "ensure", !.song = song]
                               /\ last' = [l EXCEPT !.provided = song]
                               /\ UNCHANGED <<isRadio, nowPlaying, queue>>
                          ELSE LET p == PlayerPlay(nowPlaying, queue, Track(song))
                               IN /\ nowPlaying' = p.now
                                  /\ queue' = p.queue
                                  /\ RefillEnd("nil", [l EXCEPT !.provided = song,
                                                 !.cmds = Append(l.cmds, Cmd("Play", "", "", Track(song)))])
    /\ UNCHANGED <<running, connected, errs, subs, pending, handed, shortList, updated,
                   booted, db, userdb, ncalls>>

\* playRandomSong, second half: the stream reference is empty, so
\* EnsureStreamInfo runs; on an error the function calls itself again.
RefillEnsure ==
    /\ refill.pc = "ensure"
    /\ \E out \in Outcomes, download \in BOOLEAN :
         LET e == EnsureStreamInfo(cache, refill.song, download, out)
         IN IF e.err # "nil"
            THEN /\ refill' = [refill EXCEPT !.pc = "select", !.song = NoSong,
                                 !.retries = Min(refill.retries + 1, MaxRetries)]
                 /\ last' = [last EXCEPT !.retries = Min(last.retries + 1, MaxRetries)]
                 /\ UNCHANGED <<isRadio, nowPlaying, queue>>
            ELSE LET p == PlayerPlay(nowPlaying, queue, Track(e.song))
                 IN /\ nowPlaying' = p.now
                    /\ queue' = p.queue
                    /\ RefillEnd("nil", [last EXCEPT
                         !.cmds = Append(last.cmds, Cmd("Play", "", "", Track(e.song)))])
    /\ UNCHANGED <<connected, errs, subs, pending, handed, storeVars, ncalls>>

\* Service.SetRadio: the flag is assigned first; then, when enabling, what
\* the call returns, whether it connects and whether it starts a refill
\* (idle: NowPlaying() is nil).
SetRadioAlwaysRefills(b, conn, g, c, idle) ==
    IF ~b THEN [flag |-> b, ret |-> "nil", connect |-> FALSE, refill |-> FALSE]
    ELSE IF RadioNotConnected(conn, g, c)
    THEN [flag |-> b, ret |-> "ErrNotConnected", connect |-> FALSE, refill |-> FALSE]
    ELSE [flag |-> b, ret |-> "nil", connect |-> ~conn, refill |-> TRUE]
SetRadioPlan(b, conn, g, c, idle) ==
    IF ~b THEN [flag |-> b, ret |-> "nil", connect |-> FALSE, refill |-> FALSE]
    ELSE IF RadioNotConnected(conn, g, c)
    THEN [flag |-> b, ret |-> "ErrNotConnected", connect |-> FALSE, refill |-> FALSE]
    ELSE [flag |-> b, ret |-> "nil", connect |-> ~conn, refill |-> idle]

SetRadio(b, g, c) ==
    /\ refill.pc = "idle"
    /\ ncalls < MaxCalls
    /\ ncalls' = ncalls + 1
    /\ LET plan == SetRadioPlan(b, connected, g, c, nowPlaying = NoTrack)
           l == [Rec("SetRadio") EXCEPT !.b = b, !.guild = g, !.channel = c,
                   !.radioAfter = plan.flag, !.ret = plan.ret,
                   !.cmds = IF plan.connect THEN <<Cmd("Connect", g, c, NoTrack)>>
                            ELSE <<>>,
                   !.done = ~plan.refill]
       IN /\ isRadio' = plan.flag
          /\ \E ok \in (IF plan.connect THEN BOOLEAN ELSE {TRUE}) :
               connected' = IF plan.connect THEN ConnectResult(connected, ok)
                            ELSE connected
          /\ refill' = IF plan.refill
                       THEN [Idle EXCEPT !.pc = "select", !.origin = "SetRadio"]
                       ELSE refill
          /\ last' = l
    /\ UNCHANGED <<playerVars, subs, pending, handed, storeVars>>

\* Service.SubscribeOnErrors: one more wrapped handler is registered with the
\* Player.
SubscribeOnErrors ==
    /\ refill.pc = "idle"
    /\ ncalls < MaxCalls
    /\ subs < MaxSubs
    /\ ncalls' = ncalls + 1
    /\ subs' = subs + 1
    /\ last' = Rec("SubscribeOnErrors")
    /\ UNCHANGED <<isRadio, connected, playerVars, pending, handed, storeVars, refill>>

\* The Player takes the next event from its error channel and calls every
\* subscriber with it once: the handlers registered through
\* SubscribeOnErrors (behind their wrapper) and Service.handleError.
Deliver ==
    /\ refill.pc = "idle"
    /\ errs # <<>>
    /\ errs' = Tail(errs)
    /\ LET err == Head(errs)
           l == [Rec("handleError") EXCEPT !.err = err,
                   !.hcalls = [i \in 1..subs |-> IF Forwards(err) THEN <<err>> ELSE <<>>]]
           what == handleError(err, isRadio)
       IN /\ isRadio' = IF what = "disable" THEN FALSE ELSE isRadio
          /\ refill' = IF what = "refill"
                       THEN [Idle EXCEPT !.pc = "select", !.origin = "handleError"]
                       ELSE refill
          /\ last' = [l EXCEPT !.done = (what # "refill"),
                               !.radioAfter = IF what = "disable" THEN FALSE ELSE isRadio]
    /\ UNCHANGED <<connected, nowPlaying, queue, subs, pending, handed, storeVars, ncalls>>

\* ------------------------------------------------ Player events (spec)
\* The track that follows when the current one retires (loop off).
Promote(q) ==
    IF q = <<>> THEN [now |-> NoTrack, queue |-> <<>>, empty |-> TRUE]
    ELSE [now |-> Head(q), queue |-> Tail(q), empty |-> FALSE]

\* The pipeline of the current track ends by itself (end of stream) or fails:
\* the cause is raised, the next track is promoted, and ErrQueueEmpty is
\* raised when there is none.
PipelineEnd(k, w) ==
    /\ nowPlaying # NoTrack
    /\ Len(errs) + 2 <= MaxErrs
    /\ LET p == Promote(queue)
       IN /\ nowPlaying' = p.now
          /\ queue' = p.queue
          /\ errs' = errs \o <<Event(k, w)>> \o
                     (IF p.empty THEN <<Event("ErrQueueEmpty", FALSE)>> ELSE <<>>)
    /\ UNCHANGED <<isRadio, connected, subs, pending, handed, storeVars,
                   refill, ncalls>>
    /\ last' = Observed

\* Player.Skip: the pipeline is cancelled (manual stop) and the next track is
\* promoted.
Skip ==
    /\ refill.pc = "idle"
    /\ ncalls < MaxCalls
    /\ nowPlaying # NoTrack
    /\ Len(errs) + 2 <= MaxErrs
    /\ ncalls' = ncalls + 1
    /\ LET p == Promote(queue)
       IN /\ nowPlaying' = p.now
          /\ queue' = p.queue
          /\ errs' = errs \o <<Event("ErrManualStop", FALSE)>> \o
                     (IF p.empty THEN <<Event("ErrQueueEmpty", FALSE)>> ELSE <<>>)
    /\ last' = Rec("Skip")
    /\ UNCHANGED <<isRadio, connected, subs, pending, handed, storeVars,
                   refill>>

\* Player.Stop: the pipeline is cancelled, the queue is kept.
PlayerStop(now, q, es) ==
    [now |-> NoTrack, queue |-> q,
     errs |-> IF now = NoTrack THEN es ELSE Append(es, Event("ErrManualStop", FALSE))]

\* Player.Disconnect: the pipeline is cancelled, the queue emptied and the
\* connection closed.
PlayerDisconnect(now, q, es) ==
    [now |-> NoTrack, queue |-> <<>>,
     errs |-> IF now = NoTrack THEN es ELSE Append(es, Event("ErrManualStop", FALSE))]

\* Service.Stop
Stop ==
    /\ refill.pc = "idle"
    /\ ncalls < MaxCalls
    /\ Len(errs) + 1 <= MaxErrs
    /\ ncalls' = ncalls + 1
    /\ isRadio' = FALSE
    /\ LET p == PlayerStop(nowPlaying, queue, errs)
       IN /\ nowPlaying' = p.now
          /\ queue' = p.queue
          /\ errs' = p.errs
    /\ last' = [Rec("Stop") EXCEPT !.radioAfter = FALSE]
    /\ UNCHANGED <<connected, subs, pending, handed, storeVars, refill>>

\* Service.Disconnect
Disconnect ==
    /\ refill.pc = "idle"
    /\ ncalls < MaxCalls
    /\ Len(errs) + 1 <= MaxErrs
    /\ ncalls' = ncalls + 1
    /\ isRadio' = FALSE
    /\ connected' = FALSE
    /\ LET p == PlayerDisconnect(nowPlaying, queue, errs)
       IN /\ nowPlaying' = p.now
          /\ queue' = p.queue
          /\ errs' = p.errs
    /\ last' = [Rec("Disconnect") EXCEPT !.radioAfter = FALSE]
    /\ UNCHANGED <<subs, pending, handed, storeVars, refill>>

\* Service.Stop called from another goroutine while a playRandomSong is
\* between its steps: neither function holds a lock across its calls, the
\* radio mutex guards only the single read or write of the flag.  The call is
\* noted in the record of the handler that is still running.
StopDuringRefill ==
    /\ refill.pc # "idle"
    /\ ncalls < MaxCalls
    /\ Len(errs) + 1 <= MaxErrs
    /\ ncalls' = ncalls + 1
    /\ isRadio' = FALSE
    /\ LET p == PlayerStop(nowPlaying, queue, errs)
       IN /\ nowPlaying' = p.now
          /\ queue' = p.queue
          /\ errs' = p.errs
    /\ last' = [last EXCEPT !.halts = Append(last.halts, "Stop")]
    /\ UNCHANGED <<connected, subs, pending, handed, storeVars, refill>>

\* Service.Disconnect called from another goroutine while a playRandomSong
\* is between its steps.
DisconnectDuringRefill ==
    /\ refill.pc # "idle"
    /\ ncalls < MaxCalls
    /\ Len(errs) + 1 <= MaxErrs
    /\ ncalls' = ncalls + 1
    /\ isRadio' = FALSE
    /\ connected' = FALSE
    /\ LET p == PlayerDisconnect(nowPlaying, queue, errs)
       IN /\ nowPlaying' = p.now
          /\ queue' = p.queue
          /\ errs' = p.errs
    /\ last' = [last EXCEPT !.halts = Append(last.halts, "Disconnect")]
    /\ UNCHANGED <<subs, pending, handed, storeVars, refill>>

\* The goroutine started by `go s.Player.Play(song)` in Service.Play runs.
PlayGoroutine ==
    \E g \in pending :
        /\ pending' = pending \ {g}
        /\ handed' = Append(handed, g.req)
        /\ LET p == PlayerPlay(nowPlaying, queue, g.track)
           IN /\ nowPlaying' = p.now
              /\ queue' = p.queue
        /\ last' = Observed
        /\ UNCHANGED <<isRadio, connected, errs, subs, storeVars, refill,
                       ncalls>>

\* ------------------------------------------------ short list refresher
\* Client.GetAllSongsID: the ids of the stored songs.
GetAllSongsID(d) == SeqOfSet({i \in IDs : d[i] # NoSong})

\* Service.updateShortCache: the list is replaced by what GetAllSongsID
\* returned (nil on an error, and the update flag is set again).
updateShortCache(d, upd, ok) ==
    IF ok THEN [list |-> GetAllSongsID(d), updated |-> upd]
    ELSE [list |-> <<>>, updated |-> TRUE]

\* NewFirestoreService: go f.updateShortCache(ctx)
Boot ==
    /\ ~booted
    /\ booted' = TRUE
    /\ \E ok \in BOOLEAN :
         LET u == updateShortCache(db, updated, ok)
         IN shortList' = u.list /\ updated' = u.updated
    /\ UNCHANGED <<running, isRadio, connected, playerVars, subs, pending, handed, db, userdb,
                   cache, refill, ncalls>>
    /\ last' = Observed

\* updateShortCacheProcess: a tick of the refresher.
Tick ==
    /\ booted
    /\ updated
    /\ \E ok \in BOOLEAN :
         LET u == updateShortCache(db, FALSE, ok)
         IN shortList' = u.list /\ updated' = u.updated
    /\ UNCHANGED <<running, isRadio, connected, playerVars, subs, pending, handed, booted, db,
                   userdb, cache, refill, ncalls>>
    /\ last' = Observed

\* SongsCache: an entry reaches its time to live and is dropped.
Expire(id) ==
    /\ cache[id] # NoSong
    /\ cache' = [cache EXCEPT ![id] = NoSong]
    /\ UNCHANGED <<running, isRadio, connected, playerVars, subs, pending, handed, shortList,
                   updated, booted, db, userdb, refill, ncalls>>
    /\ last' = Observed

\* ------------------------------------------------ Service.Play
\* YouTube.findSong: the song of the first video of the search result, 0 when
\* the search failed or found no video.
findSong(found) ==
    IF found = 0 THEN [song |-> NoSong, err |-> "ErrSongNotFound"]
    ELSE [song |-> [ID |-> found, StreamURL |-> "", Duration |-> 0, Playbacks |-> 0],
          err |-> "nil"]

\* YouTube.FindSong: findSong, then EnsureStreamInfo.
FindSong(c, found, dl, out) ==
    LET f == findSong(found)
    IN IF f.err # "nil" THEN [song |-> NoSong, err |-> f.err]
       ELSE LET e == EnsureStreamInfo(c, f.song, dl, out)
            IN IF e.err # "nil" THEN [song |-> NoSong, err |-> "ensure stream info"]
               ELSE [song |-> e.song, err |-> "nil"]

\* Service.SetSong: the update flag is set first; the cache is written only
\* when the store accepted the song.
SetSong(c, d, song, writeOk) ==
    IF writeOk
    THEN [err |-> "nil", cache |-> [c EXCEPT ![song.ID] = song],
          db |-> [d EXCEPT ![song.ID] = song], updated |-> TRUE]
    ELSE [err |-> "firestore set song", cache |-> c, db |-> d, updated |-> TRUE]

\* Service.UpsertSongIncPlaybacks: new is merged with the stored song, its
\* play count incremented, and it is written back.  song is the caller's
\* object after the call, stored tells whether the cache now holds it.
UpsertSongIncPlaybacks(c, d, upd, new, readOk, writeOk) ==
    LET old == GetSong(c, d, new.ID, readOk)
    IN IF old.err # "nil" /\ old.err # "ErrNotFound"
       THEN [playbacks |-> 0, err |-> "failed to get song from db", song |-> new,
             cache |-> old.cache, db |-> d, updated |-> upd, stored |-> FALSE,
             writes |-> 0]
       ELSE LET m == MergeNoOverride(new, old.song)
                n == [m EXCEPT !.Playbacks = m.Playbacks + 1]
                w == SetSong(old.cache, d, n, writeOk)
            IN IF w.err # "nil"
               THEN [playbacks |-> 0, err |-> "failed to set song into db", song |-> n,
                     cache |-> w.cache, db |-> w.db, updated |-> w.updated,
                     stored |-> FALSE, writes |-> 1]
               ELSE [playbacks |-> n.Playbacks, err |-> "nil", song |-> n,
                     cache |-> w.cache, db |-> w.db, updated |-> w.updated,
                     stored |-> TRUE, writes |-> 1]

\* Service.IncrementUserRequests: the user's count for the song is read,
\* incremented in song.Playbacks and written as the user's document.  count
\* is the song's Playbacks after the call.
IncrementUserRequests(ud, song, userReadOk, userWriteOk) ==
    IF ~userReadOk
    THEN [userdb |-> ud, song |-> song, writes |-> 0]
    ELSE LET n == IF ud[song.ID] = 0 THEN 1 ELSE ud[song.ID] + 1
         IN [userdb |-> IF userWriteOk THEN [ud EXCEPT ![song.ID] = n] ELSE ud,
             song |-> [song EXCEPT !.Playbacks = n], writes |-> 1]

\* Service.Play: the command needs a destination and none (or half of one)
\* was supplied.
PlayNotConnectedBothEmpty(conn, g, c) == ~conn /\ (c = "" /\ g = "")
PlayNotConnected(conn, g, c) == ~conn /\ (c = "" \/ g = "")

\* Service.Play: Connect is called when a guild or a channel was given.
PlayConnects(g, c) == c # "" \/ g # ""

\* Service.Play: go s.Player.Play(song), whatever error the play-count
\* write returned.
PlaySpawnUnlessWriteFailed(p, song, req, err) ==
    IF err # "nil" THEN p ELSE p \cup {[track |-> Track(song), req |-> req]}
PlaySpawn(p, song, req, err) == p \cup {[track |-> Track(song), req |-> req]}

Play(found, user, g, c) ==
    /\ refill.pc = "idle"
    /\ ncalls < MaxPlays
    /\ ncalls' = ncalls + 1
    /\ LET l == [Rec("Play") EXCEPT !.guild = g, !.channel = c, !.user = user]
       IN IF PlayNotConnected(connected, g, c)
          THEN /\ last' = [l EXCEPT !.ret = "ErrNotConnected"]
               /\ UNCHANGED <<connected, pending, updated, db, userdb, cache>>
          ELSE \* each \E ranges over the results the call can return
               \E f \in {FindSong(cache, found, download, out) :
                            download \in BOOLEAN, out \in Outcomes} :
                 IF f.err # "nil"
                 THEN /\ last' = [l EXCEPT !.ret = "find and load song from youtube",
                                           !.lookups = 1]
                      /\ UNCHANGED <<connected, pending, updated, db, userdb, cache>>
                 ELSE \E conn \in (IF PlayConnects(g, c)
                                   THEN {ConnectResult(connected, ok) : ok \in BOOLEAN}
                                   ELSE {connected}),
                         u \in {UpsertSongIncPlaybacks(cache, db, updated, f.song,
                                                       readOk, writeOk) :
                                  readOk \in BOOLEAN, writeOk \in BOOLEAN} :
                      \E r \in (IF user # ""
                                THEN {IncrementUserRequests(userdb, u.song,
                                                            userReadOk, userWriteOk) :
                                        userReadOk \in BOOLEAN, userWriteOk \in BOOLEAN}
                                ELSE {[userdb |-> userdb, song |-> u.song,
                                       writes |-> 0]}) :
                        /\ connected' = conn
                        /\ db' = u.db
                        /\ updated' = u.updated
                        /\ userdb' = r.userdb
                        \* the cache holds the caller's song object once
                        \* SetSong stored it: the user count shows there too
                        /\ cache' = IF u.stored
                                    THEN [u.cache EXCEPT ![r.song.ID] = r.song]
                                    ELSE u.cache
                        /\ pending' = PlaySpawn(pending, r.song, ncalls + 1, u.err)
                        /\ last' = [l EXCEPT
                             !.ret = IF u.err # "nil"
                                     THEN "upsert song with increment" ELSE "nil",
                             !.lookups = 1,
                             !.cmds = IF PlayConnects(g, c)
                                      THEN <<Cmd("Connect", g, c, NoTrack)>>
                                      ELSE <<>>,
                             !.writes = u.writes + r.writes,
                             !.spawned = 1,
                             !.song = r.song,
                             !.playbacks = u.playbacks]
    /\ UNCHANGED <<running, isRadio, playerVars, subs, handed, shortList, booted, refill>>

\* ------------------------------------------------ specifications
\* The radio coordinator with the Player, the provider and the resolver:
\* tracks reach the Player through the refill logic.
NextRadio ==
    \/ \E b \in BOOLEAN, g \in {"", "guild"}, c \in {"", "channel"} : SetRadio(b, g, c)
    \/ RefillSelect
    \/ RefillEnsure
    \/ SubscribeOnErrors
    \/ Deliver
    \/ \E e \in Causes : PipelineEnd(e.kind, e.wrapped)
    \/ Skip
    \/ Stop
    \/ Disconnect
    \/ Boot
    \/ Tick
    \/ \E id \in IDs : Expire(id)

SpecRadio == Init /\ [][NextRadio]_vars

\* The goroutine running a refill is scheduled until it returns.
FairRadio == SpecRadio /\ WF_vars(RefillSelect) /\ WF_vars(RefillEnsure)

\* The radio coordinator with callers that stop or disconnect while a refill
\* is running.
NextRace ==
    \/ NextRadio
    \/ StopDuringRefill
    \/ DisconnectDuringRefill

SpecRace == Init /\ [][NextRace]_vars

\* Playback requests of callers: Service.Play against the connection, the
\* store and the cache.
NextPlay ==
    \/ \E found \in 0..MaxSongs, user \in {"", "user"}, g \in {"", "guild"},
          c \in {"", "channel"} : Play(found, user, g, c)
    \/ Disconnect
    \/ \E id \in IDs : Expire(id)

SpecPlay == Init /\ [][NextPlay]_vars

\* Playback requests with the goroutines they start: the order in which the
\* tracks reach the Player's queue.
NextQueue ==
    \/ \E found \in 0..MaxSongs, user \in {"", "user"}, g \in {"", "guild"},
          c \in {"", "channel"} : Play(found, user, g, c)
    \/ PlayGoroutine

SpecQueue == Init /\ [][NextQueue]_vars

\* ------------------------------------------------ the resolver alone
\* The tracks a caller can hand to the resolver, and the contents the songs
\* cache can have when it does.
Songs ==
    {[ID |-> i, StreamURL |-> u, Duration |-> d, Playbacks |-> p] :
        i \in IDs, u \in {"", Resolved}, d \in {0, 1}, p \in {0, 1}}

InitResolver ==
    /\ isRadio = FALSE
    /\ connected = FALSE
    /\ nowPlaying = NoTrack
    /\ queue = <<>>
    /\ errs = <<>>
    /\ subs = 0
    /\ pending = {}
    /\ handed = <<>>
    /\ shortList = <<>>
    /\ updated = FALSE
    /\ booted = FALSE
    /\ db = [i \in IDs |-> NoSong]
    /\ userdb = [i \in IDs |-> 0]
    /\ cache \in [IDs -> Songs \cup {NoSong}]
    /\ \A i \in IDs : cache[i] = NoSong \/ cache[i].ID = i
    /\ refill = Idle
    /\ ncalls = 0
    /\ running = NoRun
    /\ last = Blank

\* A call of YouTube.EnsureStreamInfo with the track song: the record keeps
\* the track as it was given, the track and error that were returned, and
\* the caller's track (the object behind the pointer) as the call left it.
CallEnsureStreamInfo(song, download, out) ==
    /\ LET e == EnsureStreamInfo(cache, song, download, out)
       IN last' = [Blank EXCEPT !.op = "EnsureStreamInfo", !.provided = song,
                                !.song = e.song, !.ret = e.err, !.arg = e.arg]
    /\ UNCHANGED <<isRadio, connected, playerVars, subs, pending, handed,
                   storeVars, refill, ncalls>>

\* What the search request of findSong can come back with: an error, a
\* response without an item list, items none of which is a video, or the id
\* of the first video.
Searches ==
    {[res |-> r, id |-> 0] : r \in {"searchErr", "nilItems", "noVideo"}}
        \cup {[res |-> "video", id |-> i] : i \in IDs}
Found(search) == search.id

\* A call of YouTube.FindSong (internal/music/search/youtube).
CallFindSong(search, download, out) ==
    /\ LET f == FindSong(cache, Found(search), download, out)
       IN last' = [Blank EXCEPT !.op = "FindSong", !.song = f.song, !.ret = f.err]
    /\ UNCHANGED <<isRadio, connected, playerVars, subs, pending, handed,
                   storeVars, refill, ncalls>>

\* The client of internal/search.  findSong: errors.Wrap of a nil error is
\* nil, so a response without an item list gives neither a song nor an error.
search_findSong(search) ==
    IF search.res = "searchErr"
    THEN [song |-> NoSong, err |-> "could not find any results"]
    ELSE IF search.res = "nilItems" THEN [song |-> NoSong, err |-> "nil"]
    ELSE IF search.res = "noVideo" THEN [song |-> NoSong, err |-> "ErrSongNotFound"]
    ELSE [song |-> [ID |-> search.id, StreamURL |-> "", Duration |-> 0, Playbacks |-> 0],
          err |-> "nil"]

\* internal/search ensureStreamInfo: song.URL is read first (a nil song
\* panics there); with Download the function ends in `return nil, nil`.
search_ensureStreamInfo(song, dl, out) ==
    IF song = NoSong THEN [song |-> NoSong, err |-> "panic"]
    ELSE IF out = "videoErr" THEN [song |-> NoSong, err |-> "load video metadata"]
    ELSE IF out = "noFormats"
         THEN [song |-> NoSong, err |-> "unable to get list of formats"]
    ELSE IF dl
         THEN IF out = "fetchErr" THEN [song |-> NoSong, err |-> "download"]
              ELSE [song |-> NoSong, err |-> "nil"]
         ELSE IF out = "fetchErr"
              THEN [song |-> NoSong, err |-> "unable to get streamURL"]
              ELSE [song |-> [song EXCEPT !.StreamURL = Resolved, !.Duration = 1],
                    err |-> "nil"]

\* internal/search FindSong.
search_FindSong(search, dl, out) ==
    LET f == search_findSong(search)
    IN IF f.err # "nil"
       THEN [song |-> NoSong,
             err |-> IF f.err = "ErrSongNotFound" THEN f.err ELSE "search in youtube"]
       ELSE LET e == search_ensureStreamInfo(f.song, dl, out)
            IN IF e.err = "panic" THEN e
               ELSE IF e.err # "nil" THEN [song |-> NoSong, err |-> "ensure stream info"]
               ELSE [song |-> e.song, err |-> "nil"]

\* A call of YouTube.FindSong (internal/search).
CallSearchFindSong(search, download, out) ==
    /\ LET f == search_FindSong(search, download, out)
       IN last' = [Blank EXCEPT !.op = "search.FindSong", !.song = f.song,
                                !.ret = f.err]
    /\ UNCHANGED <<isRadio, connected, playerVars, subs, pending, handed,
                   storeVars, refill, ncalls>>

NextResolver ==
    \/ \E song \in Songs, download \in BOOLEAN, out \in Outcomes :
          CallEnsureStreamInfo(song, download, out)
    \/ \E search \in Searches, download \in BOOLEAN, out \in Outcomes :
          CallFindSong(search, download, out)
    \/ \E search \in Searches, download \in BOOLEAN, out \in Outcomes :
          CallSearchFindSong(search, download, out)

SpecResolver == InitResolver /\ [][NextResolver]_vars

\* ------------------------------------------------ the provider, step by step
\* Service.SetSong, first step: setUpdate(true).
SetSongBegin(song) ==
    /\ running.set.pc = "idle"
    /\ ncalls < MaxCalls
    /\ ncalls' = ncalls + 1
    /\ updated' = TRUE
    /\ running' = [running EXCEPT !.set = [pc |-> "write", song |-> song]]
    /\ last' = Observed
    /\ UNCHANGED <<isRadio, connected, playerVars, subs, pending, handed, shortList,
                   booted, db, userdb, cache, refill>>

\* Service.SetSong, second step: the store write and, when it succeeded, the
\* cache write.
SetSongEnd ==
    /\ running.set.pc = "write"
    /\ \E writeOk \in BOOLEAN :
         LET w == SetSong(cache, db, running.set.song, writeOk)
         IN /\ db' = w.db
            /\ cache' = w.cache
            /\ last' = [Blank EXCEPT !.op = "SetSong", !.ret = w.err,
                                     !.song = running.set.song]
    /\ running' = [running EXCEPT !.set = NoRun.set]
    /\ UNCHANGED <<isRadio, connected, playerVars, subs, pending, handed, shortList,
                   updated, booted, userdb, refill, ncalls>>

\* NewFirestoreService: go f.updateShortCache(ctx) starts.
BootRefresh ==
    /\ ~booted
    /\ running.tick.pc = "idle"
    /\ booted' = TRUE
    /\ running' = [running EXCEPT !.tick.pc = "read"]
    /\ last' = Observed
    /\ UNCHANGED <<isRadio, connected, playerVars, subs, pending, handed, shortList,
                   updated, db, userdb, cache, refill, ncalls>>

\* updateShortCacheProcess, a tick: needUpdate() is true, setUpdate(false),
\* and updateShortCache starts.
TickBegin ==
    /\ booted
    /\ running.tick.pc = "idle"
    /\ updated
    /\ updated' = FALSE
    /\ running' = [running EXCEPT !.tick.pc = "read"]
    /\ last' = Observed
    /\ UNCHANGED <<isRadio, connected, playerVars, subs, pending, handed, shortList,
                   booted, db, userdb, cache, refill, ncalls>>

\* updateShortCache, first step: GetAllSongsID, and setUpdate(true) when it
\* failed.
RefreshRead ==
    /\ running.tick.pc = "read"
    /\ \E ok \in BOOLEAN :
         LET u == updateShortCache(db, updated, ok)
         IN /\ updated' = u.updated
            /\ running' = [running EXCEPT !.tick = [pc |-> "assign", list |-> u.list,
                                                    failed |-> ~ok]]
    /\ last' = Observed
    /\ UNCHANGED <<isRadio, connected, playerVars, subs, pending, handed, shortList,
                   booted, db, userdb, cache, refill, ncalls>>

\* updateShortCache, second step: s.songsShort.List = list.
RefreshAssign ==
    /\ running.tick.pc = "assign"
    /\ shortList' = running.tick.list
    /\ running' = [running EXCEPT !.tick = NoRun.tick]
    /\ last' = Observed
    /\ UNCHANGED <<isRadio, connected, playerVars, subs, pending, handed, updated,
                   booted, db, userdb, cache, refill, ncalls>>

\* Service.GetRandomSongs(ctx, 1), first step: max := len(s.songsShort.List),
\* read without the list's lock; an empty list is the no-candidates error.
RandomBegin ==
    /\ running.rand.pc = "idle"
    /\ ncalls < MaxCalls
    /\ ncalls' = ncalls + 1
    /\ LET max == Len(shortList)
       IN IF max = 0
          THEN /\ last' = [Blank EXCEPT !.op = "GetRandomSongs",
                                        !.ret = "no preloaded songs"]
               /\ UNCHANGED running
          ELSE /\ last' = [Blank EXCEPT !.op = "GetRandomSongs", !.done = FALSE]
               /\ running' = [running EXCEPT !.rand = [pc |-> "draw", max |-> max]]
    /\ UNCHANGED <<isRadio, connected, playerVars, subs, pending, handed, shortList,
                   updated, booted, db, userdb, cache, refill>>

\* Service.GetRandomSongs(ctx, 1), second step: i := rand.Intn(max) and the
\* read of s.songsShort.List[i] under the read lock (an index past the end of
\* the list as it is now panics), then GetSong for the id drawn.
RandomDraw ==
    /\ running.rand.pc = "draw"
    /\ \E i \in 1..running.rand.max, readOk \in BOOLEAN :
         IF i > Len(shortList)
         THEN /\ last' = [last EXCEPT !.done = TRUE, !.ret = "panic"]
              /\ UNCHANGED cache
         ELSE LET r == LoadSongs(cache, db, <<shortList[i]>>,
                                 IF readOk THEN IDs ELSE {})
              IN /\ cache' = r.cache
                 /\ last' = [last EXCEPT !.done = TRUE, !.ret = r.err,
                        !.song = IF r.err = "nil" THEN r.songs[1] ELSE NoSong]
    /\ running' = [running EXCEPT !.rand = NoRun.rand]
    /\ UNCHANGED <<isRadio, connected, playerVars, subs, pending, handed, shortList,
                   updated, booted, db, userdb, refill, ncalls>>

\* Service.Random(ctx, n): GetRandomSongs(ctx, n), run without another
\* goroutine in between.
Random(n) ==
    /\ running.rand.pc = "idle"
    /\ ncalls < MaxCalls
    /\ ncalls' = ncalls + 1
    /\ \E picked \in (IF Len(shortList) = 0 THEN {{}}
                       ELSE DrawLoop(shortList, n, {{}}, {}, n * Cooldown)),
          okIds \in SUBSET IDs :
         LET r == GetRandomSongs(cache, db, shortList, picked, okIds)
         IN /\ cache' = r.cache
            /\ last' = [Blank EXCEPT !.op = "Random", !.n = n, !.ret = r.err,
                                     !.songs = r.songs]
    /\ UNCHANGED <<isRadio, connected, playerVars, subs, pending, handed, shortList,
                   updated, booted, db, userdb, refill, running>>

NextShort ==
    \/ \E n \in 1..MaxDraw : Random(n)
    \/ \E song \in StoredSongs : SetSongBegin(song)
    \/ SetSongEnd
    \/ BootRefresh
    \/ TickBegin
    \/ RefreshRead
    \/ RefreshAssign
    \/ RandomBegin
    \/ RandomDraw

SpecShort == Init /\ [][NextShort]_vars

\* ------------------------------------------------ properties
Expected(err) == err.kind \in {"ErrManualStop", "EOF", "ErrQueueEmpty"}
FromRefill == last.op \in {"handleError", "SetRadio"} /\ last.requests >= 1

\* C1: when handleError has handled an ErrQueueEmpty event, it issued a Play
\* only if the radio flag was enabled when the event arrived, and never more
\* than one; with radio enabled and a resolved track T returned by the
\* provider, exactly one Player.Play(T) was issued (and T plays when nothing
\* else was); with radio disabled no provider request and no Play were made
\* and the flag is still false.
C1_QueueEmptyRefill ==
    (last.op = "handleError" /\ last.done /\ last.err.kind = "ErrQueueEmpty") =>
        /\ Len(Plays(last)) <= 1
        /\ (Plays(last) # <<>> => last.radioBefore)
        /\ (last.radioBefore /\ last.provided.StreamURL # "" =>
              /\ last.ret = "nil"
              /\ Plays(last) = <<Cmd("Play", "", "", Track(last.provided))>>
              /\ nowPlaying # NoTrack
              /\ (last.idleBefore => nowPlaying = Track(last.provided)))
        /\ (~last.radioBefore =>
              last.requests = 0 /\ last.cmds = <<>> /\ ~isRadio /\ refill = Idle)

C1_Witness ==
    /\ last.op = "handleError" /\ last.done /\ last.err.kind = "ErrQueueEmpty"
    /\ last.radioBefore /\ last.idleBefore
    /\ last.provided.StreamURL # ""
    /\ Len(Plays(last)) = 1
    /\ nowPlaying = Track(last.provided)

\* C2 (as claimed): a refill attempt made with radio enabled that got the
\* provider's no-candidates error leaves the radio flag false and the error
\* surfaced exactly once, to the SetRadio caller or to the subscribers.
Surfaced(l) ==
    (IF l.op = "SetRadio" /\ l.ret # "nil" THEN 1 ELSE 0)
    + Cardinality({i \in DOMAIN l.hcalls :
                     \E j \in 1..Len(l.hcalls[i]) : l.hcalls[i][j].kind = l.ret})
C2_NoCandidatesSurfacedOnce ==
    (FromRefill /\ last.done /\ last.ret = "no preloaded songs"
       /\ (last.op = "handleError" => last.radioBefore)) =>
        (~isRadio /\ Surfaced(last) = 1)

\* C3: after handleError has handled an event other than ErrQueueEmpty: for
\* the manual stop signal and io.EOF (wrapped or not) the radio flag is what
\* it was and no Player command and no provider request were issued; for any
\* other error the radio flag is false.
C3_OtherEvents ==
    (last.op = "handleError" /\ last.err.kind # "ErrQueueEmpty") =>
        IF last.err.kind \in {"ErrManualStop", "EOF"}
        THEN /\ isRadio = last.radioBefore
             /\ last.cmds = <<>>
             /\ last.requests = 0
             /\ last.done /\ refill = Idle
        ELSE ~isRadio /\ last.done

C3_Witness ==
    /\ last.op = "handleError"
    /\ last.err.kind = "other"
    /\ last.radioBefore
    /\ ~isRadio

\* C4: a handler registered through SubscribeOnErrors is not called for the
\* manual stop signal, io.EOF or ErrQueueEmpty, and is called exactly once,
\* with the error itself, for every other event the Player delivers.
C4_SubscribersSeeFailuresOnce ==
    (last.op = "handleError") =>
        /\ DOMAIN last.hcalls = 1..subs
        /\ \A i \in 1..subs :
             last.hcalls[i] = IF Expected(last.err) THEN <<>> ELSE <<last.err>>

C4_Witness ==
    /\ last.op = "handleError"
    /\ subs >= 1
    /\ last.err.kind = "other"
    /\ last.radioBefore
    /\ last.hcalls[1] = <<last.err>>

\* C5: a Service.Play call made while the transport is not connected, with
\* the guild id or the channel id empty, returns ErrNotConnected with no track
\* and play count 0, looks no track up, issues no Connect, writes nothing to
\* the store and hands nothing to the Player: the flag, the connection, the
\* Player, the store and the cache are what they were.
C5_PlayNotConnectedNoEffect ==
    [][(last'.op = "Play" /\ ncalls' = ncalls + 1 /\ ~connected
          /\ (last'.guild = "" \/ last'.channel = "")) =>
         (/\ last'.ret = "ErrNotConnected"
          /\ last'.song = NoSong /\ last'.playbacks = 0
          /\ last'.lookups = 0 /\ last'.cmds = <<>>
          /\ last'.writes = 0 /\ last'.spawned = 0
          /\ UNCHANGED <<isRadio, connected, playerVars, pending, handed,
                         storeVars, refill>>)]_vars

C5_Witness ==
    /\ last.op = "Play"
    /\ ~last.connBefore
    /\ last.guild = "guild" /\ last.channel = ""
    /\ last.ret = "ErrNotConnected"
    /\ pending # {}

\* C6 (as claimed): the tracks of Service.Play requests reach the Player in
\* the order the requests were made.
C6_HandedInRequestOrder ==
    \A i, j \in 1..Len(handed) : i < j => handed[i] < handed[j]

\* C7 (as claimed): every track the refill logic hands to Player.Play has a
\* non-empty stream reference.
C7_RadioTracksResolved ==
    (last.op \in {"handleError", "SetRadio"}) =>
        \A k \in 1..Len(Plays(last)) : Plays(last)[k].track.StreamURL # ""

C9_SetRadioEnable ==
    (last.op = "SetRadio" /\ last.b
       /\ (last.connBefore \/ (last.guild # "" /\ last.channel # ""))) =>
        /\ Connects(last) = IF last.connBefore THEN <<>>
                            ELSE <<Cmd("Connect", last.guild, last.channel, NoTrack)>>
        /\ (~last.connBefore => last.cmds # <<>> /\ last.cmds[1].cmd = "Connect")
        /\ Len(Plays(last)) <= 1
        /\ ((~last.done \/ last.requests >= 1) <=> last.idleBefore)
        /\ (~last.idleBefore =>
              last.done /\ last.requests = 0 /\ Plays(last) = <<>> /\ last.ret = "nil")

C9_Witness ==
    /\ last.op = "SetRadio" /\ last.b /\ last.done
    /\ ~last.connBefore
    /\ Len(last.cmds) = 2
    /\ last.cmds[1] = Cmd("Connect", "guild", "channel", NoTrack)
    /\ last.cmds[2].cmd = "Play"

\* C10 (as claimed): a SetRadio(true, ...) call that fails with
\* ErrNotConnected leaves the radio flag as it was and makes no Connect.
C10_FailedSetRadioChangesNothing ==
    (last.op = "SetRadio" /\ last.b /\ last.ret = "ErrNotConnected") =>
        (isRadio = last.radioBefore /\ last.cmds = <<>>)

\* C11 (as claimed): once Service.Stop or Service.Disconnect has returned,
\* the radio flag is false and the QueueEmpty handler that was running when
\* it was called (it had read the flag as enabled) hands no track to the
\* Player; after a Disconnect the Player has nothing playing and an empty
\* queue.
C11_RadioQuietAfterStop ==
    (last.op = "handleError" /\ last.halts # <<>>) =>
        /\ ~isRadio
        /\ Plays(last) = <<>>
        /\ (\E i \in 1..Len(last.halts) : last.halts[i] = "Disconnect") =>
               (nowPlaying = NoTrack /\ queue = <<>>)

\* C12 (as claimed): the play count a successful Service.Play returns for a
\* track is 1 for a track new to the store and otherwise one more than the
\* count the store holds for it (the count the previous successful request
\* returned), whatever the per-user counts are.
C12_PlayCountsIncreaseByOne ==
    [][(last'.op = "Play" /\ ncalls' = ncalls + 1 /\ last'.ret = "nil"
          /\ last'.song # NoSong) =>
         last'.playbacks = (IF db[last'.song.ID] = NoSong THEN 1
                            ELSE db[last'.song.ID].Playbacks + 1)]_vars

\* C13 (as claimed): a successful EnsureStreamInfo returns the track it was
\* given (same id), and a stream reference or a duration that was populated
\* on the given track is still populated on the returned one.
C13_EnsureKeepsPopulatedFields ==
    (last.op = "EnsureStreamInfo" /\ last.ret = "nil") =>
        /\ last.song.ID = last.provided.ID
        /\ (last.provided.StreamURL # "" => last.song.StreamURL # "")
        /\ (last.provided.Duration # 0 => last.song.Duration # 0)

\* C14: a Service.Play request whose lookup succeeded starts exactly one
\* goroutine handing the returned track to the Player, also when the
\* play-count write failed (the track is returned with the error); a request
\* refused with ErrNotConnected or whose lookup failed returns no track and
\* starts none, and a failed lookup issues no Connect and writes nothing.  No
\* request's track reaches the Player twice.
C14_PlayHandsTrackOnce ==
    /\ [](\A i, j \in 1..Len(handed) : i # j => handed[i] # handed[j])
    /\ [](\A g \in pending : \A i \in 1..Len(handed) : handed[i] # g.req)
    /\ [][(last'.op = "Play" /\ ncalls' = ncalls + 1) =>
           IF last'.ret \in {"ErrNotConnected", "find and load song from youtube"}
           THEN /\ last'.song = NoSong
                /\ last'.spawned = 0
                /\ pending' = pending
                /\ last'.cmds = <<>>
                /\ last'.writes = 0
                /\ UNCHANGED <<connected, storeVars>>
           ELSE /\ last'.song # NoSong
                /\ last'.spawned = 1
                /\ pending' = pending \cup {[track |-> Track(last'.song),
                                              req |-> ncalls']}
                /\ Cardinality(pending') = Cardinality(pending) + 1]_vars

C14_Witness ==
    /\ last.op = "Play"
    /\ last.ret = "upsert song with increment"
    /\ last.song # NoSong
    /\ last.spawned = 1
    /\ \E g \in pending : g.req = ncalls /\ g.track = Track(last.song)
    /\ handed # <<>>

\* C15 (as claimed): FindSong of either YouTube client returns exactly one of
\* a track and an error, and does not panic on a nil track, whatever the
\* search came back with and whatever the Download flag is.
C15_FindSongTrackOrError ==
    (last.op \in {"FindSong", "search.FindSong"}) =>
        /\ last.ret # "panic"
        /\ (last.song = NoSong) # (last.ret = "nil")

\* C16 (as claimed): when no SetSong and no refresh is running, every song
\* the store holds is in the short id list or the needs-update flag is true
\* (a later tick will refresh the list).
C16_WrittenSongsGetListed ==
    (booted /\ running.set.pc = "idle" /\ running.tick.pc = "idle") =>
        \A i \in IDs :
            db[i] # NoSong =>
                (updated \/ \E k \in 1..Len(shortList) : shortList[k] = i)

\* C17 (as claimed): every entry of the songs cache equals what the store
\* holds for that id (the value last read from it or successfully written to
\* it).
C17_CacheEqualsStore ==
    \A i \in IDs : cache[i] # NoSong => cache[i] = db[i]

C19_DrawIndexInRange ==
    (last.op = "GetRandomSongs") => last.ret # "panic"

\* C20 (as claimed): a refresh whose GetAllSongsID failed leaves the short id
\* list as it was and sets the needs-update flag.
C20_FailedRefreshKeepsList ==
    [][(running.tick.pc = "assign" /\ running.tick.failed
          /\ running'.tick.pc = "idle") =>
         (shortList' = shortList /\ updated')]_vars

\* C21 (as claimed): every Connect that Service.Play issues carries a guild
\* id and a channel id that are both non-empty, also when the transport was
\* already connected and the caller gave only one of the two.
C21_PlayConnectsCompleteDestination ==
    (last.op = "Play") =>
        \A i \in 1..Len(last.cmds) :
            IsConnect(last.cmds[i]) =>
                (last.cmds[i].guild # "" /\ last.cmds[i].channel # "")

\* C22 (as claimed): when YouTube.EnsureStreamInfo returns an error, the
\* track it was given is as it was before the call, its stream reference
\* included, whether Download is set or not.
C22_FailedEnsureLeavesTrack ==
    (last.op = "EnsureStreamInfo" /\ last.ret # "nil") =>
        (last.arg = last.provided /\ last.arg.StreamURL = last.provided.StreamURL)

====
